---------------------------- MODULE Spec2Model ----------------------------
(***************************************************************************)
(* Senior-care REST backend (Django / Django REST framework).              *)
(*                                                                         *)
(* The persistent store is the shared state; every HTTP request is a       *)
(* handler that reads and writes rows.  Handlers whose interleaving        *)
(* matters (EventViewSet.register, VolunteerTaskViewSet.complete) are      *)
(* split at each database statement; the others are one step each.         *)
(***************************************************************************)
EXTENDS Integers, Sequences, FiniteSets, TLC

(***************************************************************************)
(* Bounds of the model.                                                    *)
(***************************************************************************)
MaxEvents == 1          \* Event rows created in one behaviour
MaxCapacity == 2        \* largest max_participants an event is created with
NumRegisterReqs == 2    \* register requests issued in one behaviour
MaxRows == 3            \* rows of the role-scoped resources, all four together
MaxTasks == 2           \* VolunteerTask rows
MaxTicks == 1           \* times the clock advances
NumCompleteReqs == 2    \* complete requests issued in one behaviour
MaxAlerts == 2          \* EmergencyAlert rows
NumResolveReqs == 2     \* resolve requests issued in one behaviour
MaxNotifications == 3   \* Notification rows
NumMarkReadReqs == 1    \* mark_read requests in flight at one time
MaxAccounts == 2        \* User rows made by /auth/register
MaxAssignments == 2     \* CareAssignment rows
MaxNgos == 3            \* NGO rows

(***************************************************************************)
(* Program constants.                                                      *)
(***************************************************************************)
SecondsPerHour == 3600  \* duration.total_seconds() / 3600
SecondsPerDay == 86400  \* timezone.now().date(): the seconds of one day
MaxDigits == 5          \* hours_logged: DecimalField(max_digits=5, ...)
DecimalPlaces == 2      \* hours_logged: DecimalField(..., decimal_places=2)

(***************************************************************************)
(* Users.  Each is created with the user_type of its set below             *)
(* (models.py, USER_TYPE_CHOICES); PATCH /users/<pk>/ can change it.        *)
(***************************************************************************)
Seniors == {"s1", "s2"}
Caretakers == {"c1"}
Volunteers == {"v1", "v2"}
SeniorAdmins == {"sa"}
NgoAdmins == {"na", "nb"}
Users == Seniors \cup Caretakers \cup Volunteers \cup SeniorAdmins \cup NgoAdmins

\* The user_type a user is created with.
InitialUserType(u) ==
    IF u \in Seniors THEN "senior"
    ELSE IF u \in Caretakers THEN "caretaker"
    ELSE IF u \in Volunteers THEN "volunteer"
    ELSE IF u \in SeniorAdmins THEN "senior_admin"
    ELSE "ngo_admin"

None == "None"

VARIABLES
    events,         \* Event rows, by id: [ngo, event_date, is_active,
                    \*   max_participants, current_registrations]
    registrations,  \* EventRegistration rows: <<event id, user>> -> number of rows
    rreq,           \* register requests: id -> the handler's position and locals
    appointments,   \* Appointment rows, by id: [senior, caretaker, status,
                    \*   appointment_date]
    medications,    \* Medication rows, by id: [senior, is_active]
    health_records, \* HealthRecord rows, by id: [senior]
    tasks,          \* VolunteerTask rows, by id
    listing,        \* the list response just returned: [resource, caller, rows]
    profiles,       \* VolunteerProfile, by user: [exists, ngo, total_hours,
                    \*   tasks_completed]
    now,            \* timezone.now(), in seconds
    ticks,          \* how often the clock has advanced
    creq,           \* complete requests: id -> the handler's position and locals
    alerts,         \* EmergencyAlert rows, by id
    rsreq,          \* resolve requests: id -> the handler's position and locals
    notifications,  \* Notification rows, by id: [user, is_read, read_at]
    mreq,           \* mark_read requests in flight: slot -> position and locals
    accounts,       \* User rows made by /auth/register, by username
    tokens,         \* the usernames that hold an auth token
    user_types,     \* User.user_type of the fixed users, by user
    assignments,    \* CareAssignment rows, by id: [senior, caretaker, is_active]
    ngos,           \* NGO rows, by id: [name, admin]
    response        \* the response just returned by a one-statement handler

user_type(u) == user_types[u]

\* timezone.now().date(), in days.
Today == now \div SecondsPerDay

\* The NGO every behaviour starts with: it has no admin (null=True), and the
\* rows made without naming an NGO belong to it.
FirstNgo == 1

evars == <<events, registrations, rreq>>
svars == <<appointments, medications, health_records, listing>>
tvars == <<tasks, profiles, now, ticks, creq>>
avars == <<alerts, rsreq>>
nvars == <<notifications, mreq>>
uvars == <<accounts, tokens, user_types, assignments, ngos>>
ovars == <<avars, nvars, uvars, response>>
vars == <<events, registrations, rreq, appointments, medications, health_records,
          tasks, listing, profiles, now, ticks, creq, alerts, rsreq, notifications,
          mreq, accounts, tokens, user_types, assignments, ngos, response>>

RegisterReqs == 1..NumRegisterReqs

\* The users who issue register requests (the handler never reads user_type).
Registrants == {"s1", "s2", "v1"}

(***************************************************************************)
(* Event and EventRegistration.                                            *)
(***************************************************************************)
EventIds == 1..MaxEvents

NoEvent ==
    [ngo |-> 0, event_date |-> 0, is_active |-> FALSE, max_participants |-> 0,
     current_registrations |-> 0]

IdleRegister ==
    [pc |-> "idle", user |-> None, pk |-> 0, ev |-> NoEvent, exists |-> FALSE,
     response |-> None, created |-> FALSE, saved |-> FALSE, afterOwn |-> FALSE]

EventInit ==
    /\ events = << >>
    /\ registrations = [e \in EventIds, u \in Users |-> 0]
    /\ rreq = [r \in RegisterReqs |-> IdleRegister]

\* POST /events/: ngo, event_date, is_active and max_participants as posted,
\* current_registrations at its default 0.
CreateNgoEvent(g, d, active, mp) ==
    /\ Len(events) < MaxEvents
    /\ g \in 1..Len(ngos)
    /\ events' = Append(events,
                        [ngo |-> g, event_date |-> d, is_active |-> active,
                         max_participants |-> mp, current_registrations |-> 0])
    /\ UNCHANGED <<registrations, rreq, svars, tvars, ovars>>

\* POST /events/ for an active event of the first NGO held today.
CreateEvent(mp) == CreateNgoEvent(FirstNgo, Today, TRUE, mp)

RECURSIVE SumOver(_, _, _)
SumOver(f, e, S) ==
    IF S = {} THEN 0
    ELSE LET x == CHOOSE y \in S : TRUE IN f[e, x] + SumOver(f, e, S \ {x})

\* event.registrations.count(): the EventRegistration rows of event e.
RegistrationCount(e) == SumOver(registrations, e, Users)

\* event = self.get_object(): the request loads the row into its own instance.
RegisterGetObject(r, u, e) ==
    /\ rreq[r].pc = "idle"
    /\ \A q \in RegisterReqs : q < r => rreq[q].pc # "idle"
    /\ e \in 1..Len(events)
    /\ rreq' = [rreq EXCEPT ![r] =
                  [@ EXCEPT !.pc = "check_exists", !.user = u, !.pk = e,
                            !.ev = events[e],
                            !.afterOwn = \E q \in RegisterReqs :
                                            /\ rreq[q].user = u
                                            /\ rreq[q].pk = e
                                            /\ rreq[q].response = "registered"]]
    /\ UNCHANGED <<events, registrations, svars, tvars, ovars>>

\* Mutant: the handler without its "already registered" test.
RegisterCheckExists_Skipped(r) ==
    /\ rreq[r].pc = "check_exists"
    /\ rreq' = [rreq EXCEPT ![r] = [@ EXCEPT !.pc = "check_capacity"]]
    /\ UNCHANGED <<events, registrations, svars, tvars, ovars>>

\* EventRegistration.objects.filter(event=event, user=request.user).exists()
RegisterCheckExists(r) ==
    /\ rreq[r].pc = "check_exists"
    /\ IF registrations[rreq[r].pk, rreq[r].user] > 0
       THEN rreq' = [rreq EXCEPT ![r] =
                       [@ EXCEPT !.pc = "done", !.exists = TRUE,
                                 !.response = "already_registered"]]
       ELSE rreq' = [rreq EXCEPT ![r] = [@ EXCEPT !.pc = "check_capacity"]]
    /\ UNCHANGED <<events, registrations, svars, tvars, ovars>>

\* Mutant: the capacity test with > for >=.
EventIsFull_Strict(ev) == ev.current_registrations > ev.max_participants

\* The capacity test, on the instance the request loaded.
EventIsFull(ev) == ev.current_registrations >= ev.max_participants

RegisterCheckCapacity(r) ==
    /\ rreq[r].pc = "check_capacity"
    /\ IF EventIsFull(rreq[r].ev)
       THEN rreq' = [rreq EXCEPT ![r] =
                       [@ EXCEPT !.pc = "done", !.response = "event_full"]]
       ELSE rreq' = [rreq EXCEPT ![r] = [@ EXCEPT !.pc = "create"]]
    /\ UNCHANGED <<events, registrations, svars, tvars, ovars>>

\* Mutant: EventRegistration without its unique_together.
UniqueEventUser_Dropped(e, u) == registrations[e, u] >= 0

\* unique_together = ['event', 'user']: the store refuses a second row of the pair.
UniqueEventUser(e, u) == registrations[e, u] = 0

\* EventRegistration.objects.create(event=event, user=request.user); a refused
\* insert raises IntegrityError, which the handler does not catch.
RegisterCreate(r) ==
    /\ rreq[r].pc = "create"
    /\ IF UniqueEventUser(rreq[r].pk, rreq[r].user)
       THEN /\ registrations' =
                 [registrations EXCEPT ![rreq[r].pk, rreq[r].user] = @ + 1]
            /\ rreq' = [rreq EXCEPT ![r] = [@ EXCEPT !.pc = "save", !.created = TRUE]]
       ELSE /\ registrations' = registrations
            /\ rreq' = [rreq EXCEPT ![r] =
                          [@ EXCEPT !.pc = "done", !.response = "integrity_error"]]
    /\ UNCHANGED <<events, svars, tvars, ovars>>

\* event.current_registrations += 1; event.save(): every field of the instance,
\* the counter it read plus one included, replaces the stored row.
RegisterSave(r) ==
    /\ rreq[r].pc = "save"
    /\ events' = [events EXCEPT ![rreq[r].pk] =
                    [rreq[r].ev EXCEPT !.current_registrations = @ + 1]]
    /\ rreq' = [rreq EXCEPT ![r] =
                  [@ EXCEPT !.pc = "done", !.saved = TRUE, !.response = "registered"]]
    /\ UNCHANGED <<registrations, svars, tvars, ovars>>

EventNext ==
    \/ \E mp \in 0..MaxCapacity : CreateEvent(mp)
    \/ \E r \in RegisterReqs, u \in Registrants, e \in EventIds :
          RegisterGetObject(r, u, e)
    \/ \E r \in RegisterReqs : RegisterCheckExists(r)
    \/ \E r \in RegisterReqs : RegisterCheckCapacity(r)
    \/ \E r \in RegisterReqs : RegisterCreate(r)
    \/ \E r \in RegisterReqs : RegisterSave(r)

(***************************************************************************)
(* The role-scoped resources: Appointment, Medication, VolunteerTask,      *)
(* HealthRecord.  Primary keys are handed out in sequence, so a table is   *)
(* the sequence of its rows.                                               *)
(***************************************************************************)
NoTime == -1

NoListing == [resource |-> None, caller |-> None, rows |-> {}]

TotalRows == Len(appointments) + Len(medications) + Len(health_records) + Len(tasks)

ScopeInit ==
    /\ appointments = << >>
    /\ medications = << >>
    /\ health_records = << >>
    /\ tasks = << >>
    /\ listing = NoListing

\* POST /appointments/: senior among the seniors, caretaker optional
\* (null=True), appointment_date as posted, status at its default.
CreateAppointmentOn(s, c, d) ==
    /\ TotalRows < MaxRows
    /\ appointments' = Append(appointments,
                              [senior |-> s, caretaker |-> c, status |-> "scheduled",
                               appointment_date |-> d])
    /\ listing' = NoListing
    /\ UNCHANGED <<medications, health_records, evars, tvars, ovars>>

\* POST /appointments/ for an appointment today.
CreateAppointment(s, c) == CreateAppointmentOn(s, c, Today)

\* POST /medications/: is_active at its default.
CreateMedication(s) ==
    /\ TotalRows < MaxRows
    /\ medications' = Append(medications, [senior |-> s, is_active |-> TRUE])
    /\ listing' = NoListing
    /\ UNCHANGED <<appointments, health_records, evars, tvars, ovars>>

\* POST /health-records/
CreateHealthRecord(s) ==
    /\ TotalRows < MaxRows
    /\ health_records' = Append(health_records, [senior |-> s])
    /\ listing' = NoListing
    /\ UNCHANGED <<appointments, medications, evars, tvars, ovars>>

\* POST /tasks/: status 'assigned', no start or end time, hours_logged 0.00.
NewNgoTask(s, v, g) ==
    [senior |-> s, volunteer |-> v, ngo |-> g, status |-> "assigned",
     actual_start_time |-> NoTime, actual_end_time |-> NoTime, hours_logged |-> 0]

NewTask(s, v) == NewNgoTask(s, v, FirstNgo)

CreateNgoTask(s, v, g) ==
    /\ TotalRows < MaxRows
    /\ Len(tasks) < MaxTasks
    /\ g \in 1..Len(ngos)
    /\ tasks' = Append(tasks, NewNgoTask(s, v, g))
    /\ listing' = NoListing
    /\ UNCHANGED <<appointments, medications, health_records, evars, profiles, now,
                   ticks, creq, ovars>>

\* POST /tasks/ for a task of the first NGO.
CreateTask(s, v) == CreateNgoTask(s, v, FirstNgo)

\* Mutant: the appointments of a senior filtered by caretaker.
AppointmentQueryset_WrongField(u) ==
    IF user_type(u) \in {"senior", "caretaker"}
    THEN {i \in 1..Len(appointments) : appointments[i].caretaker = u}
    ELSE 1..Len(appointments)

\* AppointmentViewSet.get_queryset
AppointmentQueryset(u) ==
    IF user_type(u) = "senior"
    THEN {i \in 1..Len(appointments) : appointments[i].senior = u}
    ELSE IF user_type(u) = "caretaker"
    THEN {i \in 1..Len(appointments) : appointments[i].caretaker = u}
    ELSE 1..Len(appointments)

\* MedicationViewSet.get_queryset
MedicationQueryset(u) ==
    IF user_type(u) = "senior"
    THEN {i \in 1..Len(medications) : medications[i].senior = u}
    ELSE 1..Len(medications)

\* Mutant: every role but senior filtered by volunteer.
VolunteerTaskQueryset_AllFiltered(u) ==
    IF user_type(u) = "senior"
    THEN {i \in 1..Len(tasks) : tasks[i].senior = u}
    ELSE {i \in 1..Len(tasks) : tasks[i].volunteer = u}

\* Mutant: the queryset without its filters on the caller.
VolunteerTaskQueryset_Unscoped(u) == 1..Len(tasks)

\* VolunteerTaskViewSet.get_queryset
VolunteerTaskQueryset(u) ==
    IF user_type(u) = "volunteer"
    THEN {i \in 1..Len(tasks) : tasks[i].volunteer = u}
    ELSE IF user_type(u) = "senior"
    THEN {i \in 1..Len(tasks) : tasks[i].senior = u}
    ELSE 1..Len(tasks)

\* HealthRecordViewSet.get_queryset
HealthRecordQueryset(u) ==
    IF user_type(u) = "senior"
    THEN {i \in 1..Len(health_records) : health_records[i].senior = u}
    ELSE 1..Len(health_records)

\* GET /appointments/ and the three other lists: the rows of get_queryset().
ListAppointments(u) ==
    /\ listing' = [resource |-> "appointments", caller |-> u,
                   rows |-> AppointmentQueryset(u)]
    /\ UNCHANGED <<appointments, medications, health_records, evars, tvars, ovars>>

ListMedications(u) ==
    /\ listing' = [resource |-> "medications", caller |-> u,
                   rows |-> MedicationQueryset(u)]
    /\ UNCHANGED <<appointments, medications, health_records, evars, tvars, ovars>>

ListTasks(u) ==
    /\ listing' = [resource |-> "tasks", caller |-> u,
                   rows |-> VolunteerTaskQueryset(u)]
    /\ UNCHANGED <<appointments, medications, health_records, evars, tvars, ovars>>

ListHealthRecords(u) ==
    /\ listing' = [resource |-> "health-records", caller |-> u,
                   rows |-> HealthRecordQueryset(u)]
    /\ UNCHANGED <<appointments, medications, health_records, evars, tvars, ovars>>

ScopeNext ==
    \/ \E s \in Seniors, c \in Caretakers \cup {None} : CreateAppointment(s, c)
    \/ \E s \in Seniors : CreateMedication(s)
    \/ \E s \in Seniors : CreateHealthRecord(s)
    \/ \E s \in Seniors, v \in Volunteers : CreateTask(s, v)
    \/ \E u \in Users : ListAppointments(u)
    \/ \E u \in Users : ListMedications(u)
    \/ \E u \in Users : ListTasks(u)
    \/ \E u \in Users : ListHealthRecords(u)

(***************************************************************************)
(* VolunteerTask and VolunteerProfile.  Times are whole seconds;           *)
(* hours_logged, a DecimalField with two decimal places, is held in        *)
(* hundredths of an hour.                                                  *)
(***************************************************************************)
CompleteReqs == 1..NumCompleteReqs

\* The amounts by which the clock advances between two requests.
TickSteps == {18, 5400, 3600000}

NoProfile == [exists |-> FALSE, ngo |-> 0, total_hours |-> 0, tasks_completed |-> 0]

IdleComplete ==
    [pc |-> "idle", pk |-> 0, task |-> NewTask(None, None), seconds |-> NoTime,
     profile |-> NoProfile, response |-> None,
     task_saved |-> FALSE, profile_saved |-> FALSE]

TaskInit ==
    /\ profiles = [v \in Volunteers |-> NoProfile]
    /\ now = 0
    /\ ticks = 0
    /\ creq = [c \in CompleteReqs |-> IdleComplete]

Tick(d) ==
    /\ ticks < MaxTicks
    /\ now' = now + d
    /\ ticks' = ticks + 1
    /\ UNCHANGED <<tasks, profiles, creq, evars, svars, ovars>>

\* POST /volunteers/: ngo as posted, total_hours and tasks_completed at their
\* default 0; user is a OneToOneField.
CreateNgoVolunteerProfile(v, g) ==
    /\ ~profiles[v].exists
    /\ g \in 1..Len(ngos)
    /\ profiles' = [profiles EXCEPT ![v] =
                      [exists |-> TRUE, ngo |-> g, total_hours |-> 0,
                       tasks_completed |-> 0]]
    /\ UNCHANGED <<tasks, now, ticks, creq, evars, svars, ovars>>

\* POST /volunteers/ for a volunteer of the first NGO.
CreateVolunteerProfile(v) == CreateNgoVolunteerProfile(v, FirstNgo)

\* VolunteerTaskViewSet.accept
AcceptTask(u, t) ==
    /\ t \in VolunteerTaskQueryset(u)
    /\ tasks' = [tasks EXCEPT ![t] = [@ EXCEPT !.status = "accepted"]]
    /\ UNCHANGED <<profiles, now, ticks, creq, evars, svars, ovars>>

\* VolunteerTaskViewSet.start
StartTask(u, t) ==
    /\ t \in VolunteerTaskQueryset(u)
    /\ tasks' = [tasks EXCEPT ![t] =
                   [@ EXCEPT !.status = "in_progress", !.actual_start_time = now]]
    /\ UNCHANGED <<profiles, now, ticks, creq, evars, svars, ovars>>

RECURSIVE Pow10(_)
Pow10(n) == IF n = 0 THEN 1 ELSE 10 * Pow10(n - 1)

\* decimal.ROUND_HALF_EVEN of n / d, for n >= 0 and d > 0.
RoundHalfEven(n, d) ==
    LET q == n \div d
        r == n % d
    IN  IF 2 * r < d THEN q
        ELSE IF 2 * r > d THEN q + 1
        ELSE IF q % 2 = 0 THEN q ELSE q + 1

\* The number of decimal places at which seconds / 3600 has MaxDigits significant
\* digits (0 when it has that many integer digits or more).
RECURSIVE SignificantPlaces(_, _)
SignificantPlaces(seconds, d) ==
    IF seconds * Pow10(d) >= SecondsPerHour * Pow10(MaxDigits - 1) THEN d
    ELSE SignificantPlaces(seconds, d + 1)

\* DecimalField.to_python of the float seconds / 3600:
\* Context(prec=max_digits).create_decimal_from_float, giving coef / 10^places.
\* (A tie at this stage is decided by the float's binary error; none occurs
\* below 100 hours for whole seconds.)
FloatToDecimal(seconds) ==
    IF seconds = 0 THEN [coef |-> 0, places |-> 0]
    ELSE LET d == SignificantPlaces(seconds, 0)
         IN  [coef |-> RoundHalfEven(seconds * Pow10(d), SecondsPerHour), places |-> d]

\* adapt_decimalfield_value: quantize to decimal_places, in hundredths.
Quantize(dec) ==
    IF dec.places >= DecimalPlaces
    THEN RoundHalfEven(dec.coef, Pow10(dec.places - DecimalPlaces))
    ELSE dec.coef * Pow10(DecimalPlaces - dec.places)

\* quantize raises InvalidOperation when the result needs more than max_digits.
FitsMaxDigits(hundredths) == hundredths < Pow10(MaxDigits)

\* hours_logged as task.save() stores it, from the float seconds / 3600.
HoursLoggedStored(seconds) == Quantize(FloatToDecimal(seconds))

\* task = self.get_object(): 404 unless the row is in the caller's queryset.
CompleteGetObject(c, u, t) ==
    /\ creq[c].pc = "idle"
    /\ \A q \in CompleteReqs : q < c => creq[q].pc # "idle"
    /\ t \in 1..Len(tasks)
    /\ IF t \in VolunteerTaskQueryset(u)
       THEN creq' = [creq EXCEPT ![c] =
                       [@ EXCEPT !.pc = "stamp", !.pk = t, !.task = tasks[t]]]
       ELSE creq' = [creq EXCEPT ![c] =
                       [@ EXCEPT !.pc = "done", !.pk = t, !.response = "not_found"]]
    /\ UNCHANGED <<tasks, profiles, now, ticks, evars, svars, ovars>>

\* status = 'completed'; actual_end_time = timezone.now(); and, with a start
\* time, hours_logged = duration.total_seconds() / 3600, a float on the instance
\* (seconds holds its numerator; NoTime when hours_logged was left alone).
CompleteStamp(c) ==
    /\ creq[c].pc = "stamp"
    /\ creq' = [creq EXCEPT ![c] =
                  [@ EXCEPT !.pc = "save_task",
                            !.task = [@ EXCEPT !.status = "completed",
                                               !.actual_end_time = now],
                            !.seconds = IF creq[c].task.actual_start_time # NoTime
                                        THEN now - creq[c].task.actual_start_time
                                        ELSE NoTime]]
    /\ UNCHANGED <<tasks, profiles, now, ticks, evars, svars, ovars>>

\* task.save(): every field of the instance replaces the stored row; the float
\* is converted for the DecimalField, which raises when it does not fit.
CompleteSaveTask(c) ==
    /\ creq[c].pc = "save_task"
    /\ LET stored == IF creq[c].seconds = NoTime THEN creq[c].task.hours_logged
                     ELSE HoursLoggedStored(creq[c].seconds)
       IN  IF FitsMaxDigits(stored)
           THEN /\ tasks' = [tasks EXCEPT ![creq[c].pk] =
                               [creq[c].task EXCEPT !.hours_logged = stored]]
                /\ creq' = [creq EXCEPT ![c] =
                              [@ EXCEPT !.pc = "get_profile", !.task_saved = TRUE,
                                        !.task = [@ EXCEPT !.hours_logged = stored]]]
           ELSE /\ tasks' = tasks
                /\ creq' = [creq EXCEPT ![c] =
                              [@ EXCEPT !.pc = "done", !.response = "invalid_operation"]]
    /\ UNCHANGED <<profiles, now, ticks, evars, svars, ovars>>

\* Mutant: the lookup of a missing profile answered with an error.
CompleteGetProfile_Failing(c) ==
    /\ creq[c].pc = "get_profile"
    /\ IF profiles[creq[c].task.volunteer].exists
       THEN creq' = [creq EXCEPT ![c] =
                       [@ EXCEPT !.pc = "save_profile",
                                 !.profile = profiles[creq[c].task.volunteer]]]
       ELSE creq' = [creq EXCEPT ![c] =
                       [@ EXCEPT !.pc = "done", !.response = "not_found"]]
    /\ UNCHANGED <<tasks, profiles, now, ticks, evars, svars, ovars>>

\* volunteer = VolunteerProfile.objects.get(user=task.volunteer); DoesNotExist
\* is passed over and the request still answers 'Task completed successfully.'
CompleteGetProfile(c) ==
    /\ creq[c].pc = "get_profile"
    /\ IF profiles[creq[c].task.volunteer].exists
       THEN creq' = [creq EXCEPT ![c] =
                       [@ EXCEPT !.pc = "save_profile",
                                 !.profile = profiles[creq[c].task.volunteer]]]
       ELSE creq' = [creq EXCEPT ![c] =
                       [@ EXCEPT !.pc = "done", !.response = "completed"]]
    /\ UNCHANGED <<tasks, profiles, now, ticks, evars, svars, ovars>>

\* total_hours + task.hours_logged as PositiveIntegerField stores it: int() of
\* the sum, the instance's hours_logged being the float when it was computed
\* and the stored Decimal otherwise.
TotalHoursStored(total_hours, seconds, hundredths) ==
    IF seconds # NoTime
    THEN total_hours + (seconds \div SecondsPerHour)
    ELSE total_hours + (hundredths \div 100)

\* volunteer.total_hours += task.hours_logged; volunteer.tasks_completed += 1;
\* volunteer.save()
CompleteSaveProfile(c) ==
    /\ creq[c].pc = "save_profile"
    /\ profiles' = [profiles EXCEPT ![creq[c].task.volunteer] =
                      [exists |-> TRUE,
                       ngo |-> creq[c].profile.ngo,
                       total_hours |-> TotalHoursStored(creq[c].profile.total_hours,
                                                        creq[c].seconds,
                                                        creq[c].task.hours_logged),
                       tasks_completed |-> creq[c].profile.tasks_completed + 1]]
    /\ creq' = [creq EXCEPT ![c] =
                  [@ EXCEPT !.pc = "done", !.profile_saved = TRUE,
                            !.response = "completed"]]
    /\ UNCHANGED <<tasks, now, ticks, evars, svars, ovars>>

\* The requests TaskSpec issues: the tasks' senior, another senior, a volunteer
\* and an admin call; v1 gets a VolunteerProfile and v2 stays without one;
\* complete requests are issued one after another.
TaskCallers == {"s1", "s2", "v1", "sa"}

NoCompleteInFlight == \A c \in CompleteReqs : creq[c].pc \in {"idle", "done"}

TaskNext ==
    \/ \E v \in Volunteers : CreateTask("s1", v)
    \/ CreateVolunteerProfile("v1")
    \/ \E d \in TickSteps : Tick(d)
    \/ \E u \in TaskCallers, t \in 1..Len(tasks) : AcceptTask(u, t)
    \/ \E u \in TaskCallers, t \in 1..Len(tasks) : StartTask(u, t)
    \/ \E c \in CompleteReqs, u \in TaskCallers, t \in 1..Len(tasks) :
          NoCompleteInFlight /\ CompleteGetObject(c, u, t)
    \/ \E c \in CompleteReqs : CompleteStamp(c)
    \/ \E c \in CompleteReqs : CompleteSaveTask(c)
    \/ \E c \in CompleteReqs : CompleteGetProfile(c)
    \/ \E c \in CompleteReqs : CompleteSaveProfile(c)

\* The requests OverlapSpec issues: v1 completes tasks of their own, a whole
\* hour after the start or at once, and a complete request may begin while
\* another is between two of its statements.
OverlapTickSteps == {3600}

OverlapNext ==
    \/ CreateTask("s1", "v1")
    \/ CreateVolunteerProfile("v1")
    \/ \E d \in OverlapTickSteps : Tick(d)
    \/ \E t \in 1..Len(tasks) : StartTask("v1", t)
    \/ \E c \in CompleteReqs, t \in 1..Len(tasks) : CompleteGetObject(c, "v1", t)
    \/ \E c \in CompleteReqs : CompleteStamp(c)
    \/ \E c \in CompleteReqs : CompleteSaveTask(c)
    \/ \E c \in CompleteReqs : CompleteGetProfile(c)
    \/ \E c \in CompleteReqs : CompleteSaveProfile(c)

(***************************************************************************)
(* The statistics: GET /dashboard/stats/ for every role and               *)
(* GET /volunteers/my_stats/.  A response body is the set of its           *)
(* <<key, value>> pairs; of the profile the two counters are modelled.     *)
(***************************************************************************)
NoResponse ==
    [op |-> None, caller |-> None, pk |-> 0, status |-> 0, error |-> None, body |-> {}]

\* VolunteerProfile.objects.get(user=u) finds a row.
HasProfile(u) == u \in Volunteers /\ profiles[u].exists

\* VolunteerTask.objects.filter(volunteer=user,
\*                              status__in=['assigned', 'accepted']).count()
PendingTasks(u) ==
    Cardinality({t \in 1..Len(tasks) : /\ tasks[t].volunteer = u
                                       /\ tasks[t].status \in {"assigned", "accepted"}})

\* DashboardStatsView._get_volunteer_stats
GetVolunteerStats(u) ==
    IF HasProfile(u)
    THEN {<<"total_hours", profiles[u].total_hours>>,
          <<"tasks_completed", profiles[u].tasks_completed>>,
          <<"pending_tasks", PendingTasks(u)>>}
    ELSE {}

\* Mutant: today taken as the clock's seconds, not its date.
UpcomingAppointments_BySeconds(u) ==
    Cardinality({i \in 1..Len(appointments) :
                   /\ appointments[i].senior = u
                   /\ appointments[i].appointment_date * SecondsPerDay >= now
                   /\ appointments[i].status \in {"scheduled", "confirmed"}})

\* Appointment.objects.filter(senior=user, appointment_date__gte=today,
\*                            status__in=['scheduled', 'confirmed']).count()
UpcomingAppointments(u) ==
    Cardinality({i \in 1..Len(appointments) :
                   /\ appointments[i].senior = u
                   /\ appointments[i].appointment_date >= Today
                   /\ appointments[i].status \in {"scheduled", "confirmed"}})

\* DashboardStatsView._get_senior_stats
GetSeniorStats(u) ==
    {<<"upcoming_appointments", UpcomingAppointments(u)>>,
     <<"active_medications",
       Cardinality({i \in 1..Len(medications) :
                      medications[i].senior = u /\ medications[i].is_active})>>,
     <<"unread_notifications",
       Cardinality({n \in 1..Len(notifications) :
                      notifications[n].user = u /\ ~notifications[n].is_read})>>}

\* DashboardStatsView._get_caretaker_stats
GetCaretakerStats(u) ==
    {<<"assigned_seniors",
       Cardinality({i \in 1..Len(assignments) :
                      assignments[i].caretaker = u /\ assignments[i].is_active})>>,
     <<"today_appointments",
       Cardinality({i \in 1..Len(appointments) :
                      /\ appointments[i].caretaker = u
                      /\ appointments[i].appointment_date = Today})>>,
     <<"pending_tasks", PendingTasks(u)>>}

\* User.objects.filter(user_type=ut).count(), over the fixed users and the
\* accounts made by /auth/register.
UsersOfType(ut) ==
    Cardinality({x \in Users : user_type(x) = ut})
      + Cardinality({n \in DOMAIN accounts :
                       accounts[n].exists /\ accounts[n].user_type = ut})

\* The place of an NGO name in alphabetical order.
NgoNames == <<"a", "b", "c">>

NameOrder(name) == CHOOSE k \in 1..Len(NgoNames) : NgoNames[k] = name

\* Mutant: the NGOs without the filter on their admin.
NgosOf_Unfiltered(u) == 1..Len(ngos)

\* NGO.objects.filter(admin=user)
NgosOf(u) == {g \in 1..Len(ngos) : ngos[g].admin = u}

\* .first() of that queryset under Meta.ordering = ['name']: a row of the
\* least name, any of them when several rows carry it.
FirstNgosOf(u) ==
    {g \in NgosOf(u) :
       \A h \in NgosOf(u) : NameOrder(ngos[g].name) <= NameOrder(ngos[h].name)}

\* Event.objects.filter(ngo=ngo, event_date__gte=timezone.now().date(),
\*                      is_active=True).count()
UpcomingEvents(g) ==
    Cardinality({e \in 1..Len(events) :
                   /\ events[e].ngo = g
                   /\ events[e].event_date >= Today
                   /\ events[e].is_active})

\* The counts of the ngo_admin branch for the NGO g.
GetNgoStats(g) ==
    {<<"total_volunteers",
       Cardinality({v \in Volunteers : profiles[v].exists /\ profiles[v].ngo = g})>>,
     <<"active_tasks",
       Cardinality({t \in 1..Len(tasks) :
                      /\ tasks[t].ngo = g
                      /\ tasks[t].status \in {"assigned", "accepted", "in_progress"}})>>,
     <<"upcoming_events", UpcomingEvents(g)>>}

\* DashboardStatsView._get_admin_stats: the bodies it can return.
GetAdminStats(u) ==
    IF user_type(u) = "senior_admin"
    THEN {{<<"total_seniors", UsersOfType("senior")>>,
           <<"total_caretakers", UsersOfType("caretaker")>>,
           <<"active_assignments",
             Cardinality({i \in 1..Len(assignments) : assignments[i].is_active})>>,
           <<"active_alerts",
             Cardinality({a \in 1..Len(alerts) : ~alerts[a].is_resolved})>>}}
    ELSE IF NgosOf(u) = {} THEN {{}}
    ELSE {GetNgoStats(g) : g \in FirstNgosOf(u)}

\* DashboardStatsView.get: the bodies it can return to the caller u.
GetStats(u) ==
    IF user_type(u) = "senior" THEN {GetSeniorStats(u)}
    ELSE IF user_type(u) = "caretaker" THEN {GetCaretakerStats(u)}
    ELSE IF user_type(u) = "volunteer" THEN {GetVolunteerStats(u)}
    ELSE IF user_type(u) \in {"senior_admin", "ngo_admin"} THEN GetAdminStats(u)
    ELSE {{}}

\* GET /dashboard/stats/.  Two notes are kept with the response for the
\* comparison of two requests: date, the day of the request, and again,
\* whether the response before it was a dashboard response to the same caller.
DashboardStats(u) ==
    /\ \E stats \in GetStats(u) :
          response' = [op |-> "dashboard_stats", caller |-> u, pk |-> 0,
                       status |-> 200, error |-> None, body |-> stats,
                       date |-> Today,
                       again |-> (response.op = "dashboard_stats"
                                    /\ response.caller = u)]
    /\ UNCHANGED <<evars, svars, tvars, avars, nvars, uvars>>

\* DashboardStatsView.get, the branch of a volunteer caller.
DashboardVolunteerStats(u) ==
    /\ user_type(u) = "volunteer"
    /\ DashboardStats(u)

\* VolunteerProfileViewSet.my_stats
MyStats(u) ==
    /\ IF HasProfile(u)
       THEN response' = [op |-> "my_stats", caller |-> u, pk |-> 0, status |-> 200,
                         error |-> None,
                         body |-> {<<"total_hours", profiles[u].total_hours>>,
                                   <<"tasks_completed", profiles[u].tasks_completed>>}]
       ELSE response' = [op |-> "my_stats", caller |-> u, pk |-> 0, status |-> 404,
                         error |-> "Volunteer profile not found", body |-> {}]
    /\ UNCHANGED <<evars, svars, tvars, avars, nvars, uvars>>

\* The requests StatsSpec issues: profiles and tasks are created, a task is
\* accepted by its volunteer, and every user asks for statistics.
StatsNext ==
    \/ \E v \in Volunteers : CreateVolunteerProfile(v)
    \/ \E s \in Seniors, v \in Volunteers : CreateTask(s, v)
    \/ \E t \in 1..Len(tasks) : AcceptTask(tasks[t].volunteer, t)
    \/ \E u \in Users : DashboardVolunteerStats(u)
    \/ \E u \in Users : MyStats(u)

(***************************************************************************)
(* EmergencyAlert.  response_time, a DurationField, is held in seconds;    *)
(* NoTime stands for a null resolved_at or response_time.                  *)
(***************************************************************************)
ResolveReqs == 1..NumResolveReqs

\* The amounts by which the clock advances in AlertSpec.
AlertTickSteps == {1, 60}

\* The users who call resolve (EmergencyAlertViewSet has no get_queryset of its
\* own: every authenticated user reaches every row).
AlertCallers == {"c1", "sa"}

NewAlert(s) ==
    [senior |-> s, alert_time |-> now, is_resolved |-> FALSE, resolved_at |-> NoTime,
     resolved_by |-> None, response_time |-> NoTime]

NoAlert ==
    [senior |-> None, alert_time |-> 0, is_resolved |-> FALSE, resolved_at |-> NoTime,
     resolved_by |-> None, response_time |-> NoTime]

IdleResolve == [pc |-> "idle", user |-> None, pk |-> 0, alert |-> NoAlert]

AlertInit ==
    /\ alerts = << >>
    /\ rsreq = [q \in ResolveReqs |-> IdleResolve]

\* POST /emergency-alerts/: alert_time is auto_now_add, the rest at its default.
CreateAlert(s) ==
    /\ Len(alerts) < MaxAlerts
    /\ alerts' = Append(alerts, NewAlert(s))
    /\ UNCHANGED <<rsreq, evars, svars, tvars, nvars, uvars, response>>

\* alert = self.get_object()
ResolveGetObject(q, u, a) ==
    /\ rsreq[q].pc = "idle"
    /\ \A p \in ResolveReqs : p < q => rsreq[p].pc # "idle"
    /\ a \in 1..Len(alerts)
    /\ rsreq' = [rsreq EXCEPT ![q] =
                   [pc |-> "stamp_resolved", user |-> u, pk |-> a, alert |-> alerts[a]]]
    /\ UNCHANGED <<alerts, evars, svars, tvars, nvars, uvars, response>>

\* alert.is_resolved = True; alert.resolved_at = timezone.now();
\* alert.resolved_by = request.user
ResolveStampResolved(q) ==
    /\ rsreq[q].pc = "stamp_resolved"
    /\ rsreq' = [rsreq EXCEPT ![q] =
                   [@ EXCEPT !.pc = "stamp_response",
                             !.alert = [@ EXCEPT !.is_resolved = TRUE,
                                                 !.resolved_at = now,
                                                 !.resolved_by = rsreq[q].user]]]
    /\ UNCHANGED <<alerts, evars, svars, tvars, nvars, uvars, response>>

\* alert.response_time = timezone.now() - alert.alert_time: the clock is read
\* a second time (alert_time, set on creation, is never empty).
ResolveStampResponse(q) ==
    /\ rsreq[q].pc = "stamp_response"
    /\ rsreq' = [rsreq EXCEPT ![q] =
                   [@ EXCEPT !.pc = "save",
                             !.alert = [@ EXCEPT !.response_time =
                                                     now - rsreq[q].alert.alert_time]]]
    /\ UNCHANGED <<alerts, evars, svars, tvars, nvars, uvars, response>>

\* alert.save()
ResolveSave(q) ==
    /\ rsreq[q].pc = "save"
    /\ alerts' = [alerts EXCEPT ![rsreq[q].pk] = rsreq[q].alert]
    /\ rsreq' = [rsreq EXCEPT ![q] = [@ EXCEPT !.pc = "done"]]
    /\ UNCHANGED <<evars, svars, tvars, nvars, uvars, response>>

\* EmergencyAlertAdmin.mark_resolved on the selected rows S:
\* queryset.update(is_resolved=True, resolved_at=timezone.now())
AdminMarkResolved(S) ==
    /\ S # {}
    /\ alerts' = [a \in 1..Len(alerts) |->
                    IF a \in S
                    THEN [alerts[a] EXCEPT !.is_resolved = TRUE, !.resolved_at = now]
                    ELSE alerts[a]]
    /\ UNCHANGED <<rsreq, evars, svars, tvars, nvars, uvars, response>>

AlertNext ==
    \/ \E s \in Seniors : CreateAlert(s)
    \/ \E d \in AlertTickSteps : Tick(d)
    \/ \E q \in ResolveReqs, u \in AlertCallers, a \in 1..Len(alerts) :
          ResolveGetObject(q, u, a)
    \/ \E q \in ResolveReqs : ResolveStampResolved(q)
    \/ \E q \in ResolveReqs : ResolveStampResponse(q)
    \/ \E q \in ResolveReqs : ResolveSave(q)
    \/ \E S \in SUBSET (1..Len(alerts)) : AdminMarkResolved(S)

(***************************************************************************)
(* Notification.  NoTime stands for a null read_at.                        *)
(***************************************************************************)
MarkReadReqs == 1..NumMarkReadReqs

\* The amounts by which the clock advances in NotificationSpec.
NotificationTickSteps == {60}

\* The users who own and read notifications.
NotificationUsers == {"s1", "v1"}

NewNotification(u) == [user |-> u, is_read |-> FALSE, read_at |-> NoTime]

IdleMarkRead ==
    [pc |-> "idle", user |-> None, pk |-> 0, notification |-> NewNotification(None)]

NotificationInit ==
    /\ notifications = << >>
    /\ mreq = [m \in MarkReadReqs |-> IdleMarkRead]

\* POST /notifications/: is_read and read_at at their defaults.
CreateNotification(u) ==
    /\ Len(notifications) < MaxNotifications
    /\ notifications' = Append(notifications, NewNotification(u))
    /\ UNCHANGED <<mreq, evars, svars, tvars, avars, uvars, response>>

\* Mutant: the queryset without its filter on the caller.
NotificationQueryset_Unscoped(u) == 1..Len(notifications)

\* NotificationViewSet.get_queryset
NotificationQueryset(u) == {n \in 1..Len(notifications) : notifications[n].user = u}

\* notification = self.get_object(): 404 unless the row is the caller's.  A
\* request takes the first free slot of mreq and frees it when it has answered.
MarkReadGetObject(m, u, n) ==
    /\ mreq[m].pc = "idle"
    /\ \A p \in MarkReadReqs : p < m => mreq[p].pc # "idle"
    /\ n \in 1..Len(notifications)
    /\ IF n \in NotificationQueryset(u)
       THEN /\ mreq' = [mreq EXCEPT ![m] =
                          [pc |-> "stamp", user |-> u, pk |-> n,
                           notification |-> notifications[n]]]
            /\ UNCHANGED response
       ELSE /\ response' = [op |-> "mark_read", caller |-> u, pk |-> n,
                            status |-> 404, error |-> "Not found.", body |-> {}]
            /\ UNCHANGED mreq
    /\ UNCHANGED <<notifications, evars, svars, tvars, avars, uvars>>

\* notification.is_read = True; notification.read_at = timezone.now()
MarkReadStamp(m) ==
    /\ mreq[m].pc = "stamp"
    /\ mreq' = [mreq EXCEPT ![m] =
                  [@ EXCEPT !.pc = "save",
                            !.notification = [@ EXCEPT !.is_read = TRUE,
                                                       !.read_at = now]]]
    /\ UNCHANGED <<notifications, evars, svars, tvars, avars, uvars, response>>

\* notification.save(), and the answer 'Notification marked as read.'
MarkReadSave(m) ==
    /\ mreq[m].pc = "save"
    /\ notifications' = [notifications EXCEPT ![mreq[m].pk] = mreq[m].notification]
    /\ response' = [op |-> "mark_read", caller |-> mreq[m].user, pk |-> mreq[m].pk,
                    status |-> 200, error |-> None, body |-> {}]
    /\ mreq' = [mreq EXCEPT ![m] = IdleMarkRead]
    /\ UNCHANGED <<evars, svars, tvars, avars, uvars>>

\* update(is_read=True, read_at=timezone.now()) of one row.
MarkedRead(row) == [row EXCEPT !.is_read = TRUE, !.read_at = now]

\* Mutant: mark_as_unread that leaves read_at as it was.
MarkedUnread_KeepsReadAt(row) == [row EXCEPT !.is_read = FALSE]

\* update(is_read=False, read_at=None) of one row.
MarkedUnread(row) == [row EXCEPT !.is_read = FALSE, !.read_at = NoTime]

\* NotificationViewSet.mark_all_read: one UPDATE over get_queryset().
MarkAllRead(u) ==
    /\ notifications' = [n \in 1..Len(notifications) |->
                           IF n \in NotificationQueryset(u)
                           THEN MarkedRead(notifications[n])
                           ELSE notifications[n]]
    /\ response' = [op |-> "mark_all_read", caller |-> u, pk |-> 0, status |-> 200,
                    error |-> None, body |-> {}]
    /\ UNCHANGED <<mreq, evars, svars, tvars, avars, uvars>>

\* NotificationAdmin.mark_as_read on the selected rows S.
AdminMarkAsRead(S) ==
    /\ S # {}
    /\ notifications' = [n \in 1..Len(notifications) |->
                           IF n \in S THEN MarkedRead(notifications[n])
                           ELSE notifications[n]]
    /\ UNCHANGED <<mreq, evars, svars, tvars, avars, uvars, response>>

\* NotificationAdmin.mark_as_unread on the selected rows S.
AdminMarkAsUnread(S) ==
    /\ S # {}
    /\ notifications' = [n \in 1..Len(notifications) |->
                           IF n \in S THEN MarkedUnread(notifications[n])
                           ELSE notifications[n]]
    /\ UNCHANGED <<mreq, evars, svars, tvars, avars, uvars, response>>

NotificationNext ==
    \/ \E u \in NotificationUsers : CreateNotification(u)
    \/ \E d \in NotificationTickSteps : Tick(d)
    \/ \E m \in MarkReadReqs, u \in NotificationUsers, n \in 1..Len(notifications) :
          MarkReadGetObject(m, u, n)
    \/ \E m \in MarkReadReqs : MarkReadStamp(m)
    \/ \E m \in MarkReadReqs : MarkReadSave(m)
    \/ \E u \in NotificationUsers : MarkAllRead(u)
    \/ \E S \in SUBSET (1..Len(notifications)) : AdminMarkAsRead(S)
    \/ \E S \in SUBSET (1..Len(notifications)) : AdminMarkAsUnread(S)

(***************************************************************************)
(* POST /auth/register/.  The accounts it makes are kept apart from the    *)
(* fixed users above, who are the callers of every other request.          *)
(***************************************************************************)
Usernames == {"ann", "bob", "cy"}

\* "weak" stands for a password that validate_password rejects.
Passwords == {"pw1", "pw2", "weak"}

UserTypes == {"senior", "volunteer"}

NoAccount == [exists |-> FALSE, password |-> None, user_type |-> None]

AuthInit ==
    /\ accounts = [n \in Usernames |-> NoAccount]
    /\ tokens = {}
    /\ user_types = [u \in Users |-> InitialUserType(u)]
    /\ assignments = << >>
    /\ ngos = <<[name |-> "b", admin |-> None]>>

\* The field validators, run before validate(): username is unique on the model
\* and password carries validators=[validate_password].
FieldsValid(username, password) ==
    /\ ~accounts[username].exists
    /\ password # "weak"

\* Mutant: validate() without the comparison.
PasswordsMatch_Unchecked(password, password2) == TRUE

\* RegisterSerializer.validate: attrs['password'] != attrs['password2'] raises.
PasswordsMatch(password, password2) == password = password2

\* RegisterView.create: is_valid(raise_exception=True), serializer.save() through
\* User.objects.create_user, then Token.objects.get_or_create(user=user).
RegisterUser(username, password, password2, ut) ==
    /\ IF ~FieldsValid(username, password)
       THEN /\ response' = [op |-> "register", caller |-> username, pk |-> 0,
                            status |-> 400, error |-> "field", body |-> {}]
            /\ UNCHANGED <<accounts, tokens>>
       ELSE IF ~PasswordsMatch(password, password2)
       THEN /\ response' = [op |-> "register", caller |-> username, pk |-> 0,
                            status |-> 400, error |-> "Passwords don't match.",
                            body |-> {}]
            /\ UNCHANGED <<accounts, tokens>>
       ELSE /\ Cardinality({n \in Usernames : accounts[n].exists}) < MaxAccounts
            /\ accounts' = [accounts EXCEPT ![username] =
                              [exists |-> TRUE, password |-> password,
                               user_type |-> ut]]
            /\ tokens' = tokens \cup {username}
            /\ response' = [op |-> "register", caller |-> username, pk |-> 0,
                            status |-> 201, error |-> None, body |-> {}]
    /\ UNCHANGED <<user_types, assignments, ngos, evars, svars, tvars, avars,
                   nvars>>

AuthNext ==
    \E username \in Usernames, password \in Passwords, password2 \in Passwords,
       ut \in UserTypes :
        RegisterUser(username, password, password2, ut)

(***************************************************************************)
(* The status of an Appointment: confirm, complete and the update of the   *)
(* status field through PATCH /appointments/<pk>/.  Each is a load of       *)
(* the row, an assignment and a save(), taken as one step.                 *)
(***************************************************************************)
\* The users who call the appointment actions, and the statuses they PATCH.
AppointmentCallers == {"s1", "sa"}

PatchedStatuses == {"cancelled", "rescheduled"}

\* self.get_object() finds no row of the caller's queryset under pk.
AppointmentNotFound(op, u, i) ==
    /\ i \notin AppointmentQueryset(u)
    /\ response' = [op |-> op, caller |-> u, pk |-> i, status |-> 404,
                    error |-> "Not found.", body |-> {}]
    /\ UNCHANGED appointments

\* The row of pk i saved with status st.
AppointmentSaved(op, u, i, st) ==
    /\ i \in AppointmentQueryset(u)
    /\ appointments' = [appointments EXCEPT ![i] = [@ EXCEPT !.status = st]]
    /\ response' = [op |-> op, caller |-> u, pk |-> i, status |-> 200,
                    error |-> None, body |-> {}]

\* AppointmentViewSet.confirm
ConfirmAppointment(u, i) ==
    /\ i \in 1..Len(appointments)
    /\ \/ AppointmentNotFound("confirm", u, i)
       \/ AppointmentSaved("confirm", u, i, "confirmed")
    /\ UNCHANGED <<medications, health_records, tasks, listing, evars, tvars, avars,
                   nvars, uvars>>

\* AppointmentViewSet.complete
CompleteAppointment(u, i) ==
    /\ i \in 1..Len(appointments)
    /\ \/ AppointmentNotFound("complete", u, i)
       \/ AppointmentSaved("complete", u, i, "completed")
    /\ UNCHANGED <<medications, health_records, tasks, listing, evars, tvars, avars,
                   nvars, uvars>>

\* PATCH /appointments/<pk>/ with {"status": st}, st one of the choices.
UpdateAppointmentStatus(u, i, st) ==
    /\ i \in 1..Len(appointments)
    /\ \/ AppointmentNotFound("partial_update", u, i)
       \/ AppointmentSaved("partial_update", u, i, st)
    /\ UNCHANGED <<medications, health_records, tasks, listing, evars, tvars, avars,
                   nvars, uvars>>

AppointmentNext ==
    \/ \E s \in Seniors, c \in Caretakers \cup {None} : CreateAppointment(s, c)
    \/ \E u \in AppointmentCallers, i \in 1..Len(appointments) :
          ConfirmAppointment(u, i)
    \/ \E u \in AppointmentCallers, i \in 1..Len(appointments) :
          CompleteAppointment(u, i)
    \/ \E u \in AppointmentCallers, i \in 1..Len(appointments),
          st \in PatchedStatuses : UpdateAppointmentStatus(u, i, st)

(***************************************************************************)
(* VolunteerTaskAdmin: the bulk actions of the admin site.                 *)
(***************************************************************************)
\* mark_completed: queryset.update(status='completed',
\* actual_end_time=timezone.now()) over the selected rows, one UPDATE that
\* writes these two columns and no other.
AdminMarkCompleted(S) ==
    /\ S # {}
    /\ S \subseteq 1..Len(tasks)
    /\ tasks' = [t \in 1..Len(tasks) |->
                   IF t \in S
                   THEN [tasks[t] EXCEPT !.status = "completed",
                                         !.actual_end_time = now]
                   ELSE tasks[t]]
    /\ UNCHANGED <<profiles, now, ticks, creq, evars, svars, ovars>>

\* The requests AdminTaskSpec issues: v1 accepts, starts and completes tasks of
\* their own through the API, one request after another, and a staff user
\* runs mark_completed on a selection of tasks.
AdminTaskNext ==
    \/ CreateTask("s1", "v1")
    \/ CreateVolunteerProfile("v1")
    \/ \E d \in TickSteps : Tick(d)
    \/ \E t \in 1..Len(tasks) : AcceptTask("v1", t)
    \/ \E t \in 1..Len(tasks) : StartTask("v1", t)
    \/ \E S \in SUBSET (1..Len(tasks)) : AdminMarkCompleted(S)
    \/ \E c \in CompleteReqs, t \in 1..Len(tasks) :
          NoCompleteInFlight /\ CompleteGetObject(c, "v1", t)
    \/ \E c \in CompleteReqs : CompleteStamp(c)
    \/ \E c \in CompleteReqs : CompleteSaveTask(c)
    \/ \E c \in CompleteReqs : CompleteGetProfile(c)
    \/ \E c \in CompleteReqs : CompleteSaveProfile(c)

(***************************************************************************)
(* CareAssignment and the user_type of the users it refers to.  The API    *)
(* registers no route for CareAssignment (urls.py): its rows are made and  *)
(* changed in the admin site, whose form takes for senior and caretaker    *)
(* only the users limit_choices_to admits.                                 *)
(***************************************************************************)
\* The users CareSpec assigns and whose user_type it changes, and the values
\* of USER_TYPE_CHOICES it changes to.
CareUsers == {"s1", "c1"}

PatchedUserTypes == {"senior", "caretaker", "volunteer"}

\* limit_choices_to of CareAssignment.senior and CareAssignment.caretaker.
CareAssignmentChoicesValid(s, c) ==
    /\ user_type(s) = "senior"
    /\ user_type(c) = "caretaker"

\* CareAssignmentAdmin, the add form: a row with is_active at its default
\* when both choices are valid, and no row otherwise.
AdminAddCareAssignment(s, c) ==
    /\ Len(assignments) < MaxAssignments
    /\ IF CareAssignmentChoicesValid(s, c)
       THEN assignments' = Append(assignments,
                                  [senior |-> s, caretaker |-> c, is_active |-> TRUE])
       ELSE UNCHANGED assignments
    /\ UNCHANGED <<accounts, tokens, user_types, ngos, evars, svars, tvars, avars,
                   nvars, response>>

\* CareAssignmentAdmin, the change form of row i, validated as the add form is.
AdminChangeCareAssignment(i, s, c) ==
    /\ i \in 1..Len(assignments)
    /\ IF CareAssignmentChoicesValid(s, c)
       THEN assignments' = [assignments EXCEPT ![i] =
                              [@ EXCEPT !.senior = s, !.caretaker = c]]
       ELSE UNCHANGED assignments
    /\ UNCHANGED <<accounts, tokens, user_types, ngos, evars, svars, tvars, avars,
                   nvars, response>>

\* PATCH /users/<pk>/ with {"user_type": ut}: UserViewSet is a ModelViewSet over
\* User.objects.all() for any authenticated caller, and UserSerializer leaves
\* user_type writable.
UpdateUserType(u, target, ut) ==
    /\ user_types' = [user_types EXCEPT ![target] = ut]
    /\ response' = [op |-> "partial_update", caller |-> u, pk |-> 0, status |-> 200,
                    error |-> None, body |-> {<<target, ut>>}]
    /\ UNCHANGED <<accounts, tokens, assignments, ngos, evars, svars, tvars, avars,
                   nvars>>

CareNext ==
    \/ \E s \in CareUsers, c \in CareUsers : AdminAddCareAssignment(s, c)
    \/ \E i \in 1..Len(assignments), s \in CareUsers, c \in CareUsers :
          AdminChangeCareAssignment(i, s, c)
    \/ \E u \in CareUsers, target \in CareUsers, ut \in PatchedUserTypes :
          UpdateUserType(u, target, ut)

(***************************************************************************)
(* The named actions addressed at any row by any caller: get_object()      *)
(* looks the pk up in the caller's queryset and answers 404 when it is not *)
(* there.                                                                  *)
(***************************************************************************)
\* self.get_object() of a task action finds no row of the caller's queryset.
TaskNotFound(op, u, t) ==
    /\ t \in 1..Len(tasks)
    /\ t \notin VolunteerTaskQueryset(u)
    /\ response' = [op |-> op, caller |-> u, pk |-> t, status |-> 404,
                    error |-> "Not found.", body |-> {}]
    /\ UNCHANGED <<evars, svars, tvars, avars, nvars, uvars>>

\* POST /tasks/<pk>/accept/, found or not.
AcceptTaskRequest(u, t) == AcceptTask(u, t) \/ TaskNotFound("accept", u, t)

\* POST /tasks/<pk>/start/, found or not.
StartTaskRequest(u, t) == StartTask(u, t) \/ TaskNotFound("start", u, t)

\* The callers of AccessSpec: the volunteer the rows are assigned to, another
\* volunteer and another senior than the rows' senior.
AccessCallers == {"s2", "v1", "v2"}

\* The requests AccessSpec issues: one appointment and one task of s1 with
\* volunteer v1 and one notification of v1, and every caller addressing every
\* named action at them; one complete request is issued, and one mark_read
\* request at a time.
AccessNext ==
    \/ Len(appointments) = 0 /\ CreateAppointment("s1", None)
    \/ Len(tasks) = 0 /\ CreateTask("s1", "v1")
    \/ Len(notifications) = 0 /\ CreateNotification("v1")
    \/ CreateVolunteerProfile("v1")
    \/ \E u \in AccessCallers, i \in 1..Len(appointments) : ConfirmAppointment(u, i)
    \/ \E u \in AccessCallers, i \in 1..Len(appointments) : CompleteAppointment(u, i)
    \/ \E u \in AccessCallers, t \in 1..Len(tasks) : AcceptTaskRequest(u, t)
    \/ \E u \in AccessCallers, t \in 1..Len(tasks) : StartTaskRequest(u, t)
    \/ \E u \in AccessCallers, t \in 1..Len(tasks) : CompleteGetObject(1, u, t)
    \/ \E c \in CompleteReqs : CompleteStamp(c)
    \/ \E c \in CompleteReqs : CompleteSaveTask(c)
    \/ \E c \in CompleteReqs : CompleteGetProfile(c)
    \/ \E c \in CompleteReqs : CompleteSaveProfile(c)
    \/ \E u \in AccessCallers, n \in 1..Len(notifications) :
          MarkReadGetObject(1, u, n)
    \/ \E m \in MarkReadReqs : MarkReadStamp(m)
    \/ \E m \in MarkReadReqs : MarkReadSave(m)

(***************************************************************************)
(* NGO rows and the dashboard of every role.                               *)
(***************************************************************************)
\* POST /ngos/: name and admin as posted; the admin is null or one of the
\* users limit_choices_to admits, and the request is refused otherwise.
CreateNgo(name, admin) ==
    /\ Len(ngos) < MaxNgos
    /\ IF admin = None \/ user_type(admin) = "ngo_admin"
       THEN ngos' = Append(ngos, [name |-> name, admin |-> admin])
       ELSE UNCHANGED ngos
    /\ UNCHANGED <<accounts, tokens, user_types, assignments, evars, svars, tvars,
                   avars, nvars, response>>

\* The amounts by which the clock advances between two dashboard requests:
\* a minute, and a day.
DashTickSteps == {60, SecondsPerDay}

\* No request has been answered yet: DashSpec and NgoDashSpec write their rows
\* first and then let the callers ask, so that no write falls between two
\* dashboard requests.
Writing == response = NoResponse

\* The callers of DashSpec, one of every user_type.
DashCallers == {"s1", "c1", "v1", "sa", "na"}

\* The requests DashSpec issues: a row of every entity the dashboard counts,
\* then a user of every role asking for statistics while the clock advances.
DashNext ==
    \/ /\ Writing /\ Len(appointments) = 0
       /\ \E d \in {0, 1} : CreateAppointmentOn("s1", "c1", d)
    \/ Writing /\ Len(medications) = 0 /\ CreateMedication("s1")
    \/ Writing /\ Len(notifications) = 0 /\ CreateNotification("s1")
    \/ Writing /\ Len(assignments) = 0 /\ AdminAddCareAssignment("s1", "c1")
    \/ Writing /\ Len(alerts) = 0 /\ CreateAlert("s1")
    \/ Writing /\ Len(tasks) = 0 /\ CreateTask("s1", "v1")
    \/ Writing /\ CreateVolunteerProfile("v1")
    \/ Writing /\ Len(ngos) = 1 /\ CreateNgo("a", "na")
    \/ /\ Writing /\ Len(events) = 0
       /\ \E g \in 1..Len(ngos), d \in {0, 1} : CreateNgoEvent(g, d, TRUE, 1)
    \/ \E d \in DashTickSteps : Tick(d)
    \/ \E u \in DashCallers : DashboardStats(u)

\* The NGOs NgoDashSpec creates, as <<name, admin>>.
PostedNgos == {<<"a", "na">>, <<"c", "na">>, <<"a", "nb">>}

\* The requests NgoDashSpec issues: NGOs of two admins, a task, a volunteer
\* and an event (dated yesterday or today) of any of them, a task completed in
\* the admin site, then the two admins asking for statistics.
NgoDashNext ==
    \/ Writing /\ \E ngo \in PostedNgos : CreateNgo(ngo[1], ngo[2])
    \/ /\ Writing /\ Len(tasks) = 0
       /\ \E g \in 1..Len(ngos) : CreateNgoTask("s1", "v1", g)
    \/ Writing /\ \E t \in 1..Len(tasks) : AdminMarkCompleted({t})
    \/ Writing /\ \E g \in 1..Len(ngos) : CreateNgoVolunteerProfile("v1", g)
    \/ /\ Writing /\ Len(events) = 0
       /\ \E g \in 1..Len(ngos), d \in {-1, 0}, active \in BOOLEAN :
             CreateNgoEvent(g, d, active, 1)
    \/ \E u \in NgoAdmins : DashboardStats(u)

Init ==
    /\ EventInit
    /\ ScopeInit
    /\ TaskInit
    /\ AlertInit
    /\ NotificationInit
    /\ AuthInit
    /\ response = NoResponse

EventSpec == Init /\ [][EventNext]_vars

ScopeSpec == Init /\ [][ScopeNext]_vars

TaskSpec == Init /\ [][TaskNext]_vars

OverlapSpec == Init /\ [][OverlapNext]_vars

StatsSpec == Init /\ [][StatsNext]_vars

AlertSpec == Init /\ [][AlertNext]_vars

NotificationSpec == Init /\ [][NotificationNext]_vars

AuthSpec == Init /\ [][AuthNext]_vars

AppointmentSpec == Init /\ [][AppointmentNext]_vars

AdminTaskSpec == Init /\ [][AdminTaskNext]_vars

CareSpec == Init /\ [][CareNext]_vars

AccessSpec == Init /\ [][AccessNext]_vars

DashSpec == Init /\ [][DashNext]_vars

NgoDashSpec == Init /\ [][NgoDashNext]_vars

(***************************************************************************)
(* Event.register: capacity, counter and uniqueness.                       *)
(***************************************************************************)
RegisterQuiescent == \A r \in RegisterReqs : rreq[r].pc \in {"idle", "done"}

\* C1: under any interleaving of register requests, every event has
\* current_registrations <= max_participants and at most max_participants
\* EventRegistration rows.
C1_NeverOverbooked ==
    \A e \in 1..Len(events) :
        /\ events[e].current_registrations <= events[e].max_participants
        /\ RegistrationCount(e) <= events[e].max_participants

\* C2: once every register request has finished, each event's
\* current_registrations equals the number of its EventRegistration rows.
C2_CounterEqualsRows ==
    RegisterQuiescent =>
        \A e \in 1..Len(events) :
            events[e].current_registrations = RegistrationCount(e)

\* C3: a register request of a user without a registration, on an event it read
\* with current_registrations >= max_participants, answers 'Event is full.',
\* and has created no row and written no counter.
C3_FullEventRefused ==
    \A r \in RegisterReqs :
        ( /\ rreq[r].pc = "done"
          /\ ~rreq[r].exists
          /\ rreq[r].ev.current_registrations >= rreq[r].ev.max_participants )
        => ( /\ rreq[r].response = "event_full"
             /\ ~rreq[r].created
             /\ ~rreq[r].saved )

C3_Witness ==
    \E r \in RegisterReqs :
        /\ rreq[r].pc = "done"
        /\ rreq[r].response = "event_full"
        /\ rreq[r].ev.max_participants > 0
        /\ rreq[r].ev.current_registrations = rreq[r].ev.max_participants

\* C4: a register request issued after a request of the same user for the same
\* event has succeeded answers 'Already registered for this event.', and has
\* created no row and written no counter.
C4_SecondCallConflicts ==
    \A r \in RegisterReqs :
        (rreq[r].pc = "done" /\ rreq[r].afterOwn)
        => ( /\ rreq[r].response = "already_registered"
             /\ ~rreq[r].created
             /\ ~rreq[r].saved
             /\ registrations[rreq[r].pk, rreq[r].user] = 1 )

C4_Witness ==
    \E r \in RegisterReqs :
        /\ rreq[r].pc = "done"
        /\ rreq[r].afterOwn
        /\ rreq[r].response = "already_registered"

\* C5: there is never more than one EventRegistration row per (event, user),
\* also when requests of one user for one event interleave.
C5_OneRowPerEventUser ==
    \A e \in EventIds, u \in Users : registrations[e, u] <= 1

\* Two requests of one user were both past the "already registered" test, and
\* the store refused the second insert.
C5_Witness ==
    \E r \in RegisterReqs :
        /\ rreq[r].response = "integrity_error"
        /\ registrations[rreq[r].pk, rreq[r].user] = 1


(***************************************************************************)
(* Visibility scoping of the list responses.                               *)
(***************************************************************************)
SeniorRows(table, u) == {i \in 1..Len(table) : table[i].senior = u}

\* The rows of a resource that name u as the assigned actor: the appointment's
\* caretaker, the task's volunteer.  Medication and HealthRecord rows name no
\* actor, and the modelled store holds no CareAssignment linking a caretaker
\* to their senior, so no such row is u's.
ActorRows(resource, u) ==
    IF resource = "appointments"
    THEN {i \in 1..Len(appointments) : appointments[i].caretaker = u}
    ELSE IF resource = "tasks"
    THEN {i \in 1..Len(tasks) : tasks[i].volunteer = u}
    ELSE {}

\* C6: a list answered to a senior holds exactly the rows whose senior is the
\* caller, for Appointment, Medication, VolunteerTask and HealthRecord.
C6_SeniorSeesExactlyOwnRows ==
    listing.caller \in Seniors =>
        /\ listing.resource = "appointments" =>
               listing.rows = SeniorRows(appointments, listing.caller)
        /\ listing.resource = "medications" =>
               listing.rows = SeniorRows(medications, listing.caller)
        /\ listing.resource = "tasks" =>
               listing.rows = SeniorRows(tasks, listing.caller)
        /\ listing.resource = "health-records" =>
               listing.rows = SeniorRows(health_records, listing.caller)

\* A senior lists appointments while another senior has one too, with a
\* caretaker attached.
C6_Witness ==
    /\ listing.caller \in Seniors
    /\ listing.resource = "appointments"
    /\ listing.rows # {}
    /\ \E i \in 1..Len(appointments) :
           /\ i \notin listing.rows
           /\ appointments[i].caretaker # None

\* C7: a list answered to a volunteer or caretaker holds only rows that name the
\* caller as the assigned actor.
C7_ActorSeesOnlyAssignedRows ==
    listing.caller \in Users /\ user_type(listing.caller) \in {"volunteer", "caretaker"}
        => listing.rows \subseteq ActorRows(listing.resource, listing.caller)

\* C8: a list answered to a senior_admin or ngo_admin holds every row of the
\* resource.
C8_AdminSeesAllRows ==
    listing.caller \in SeniorAdmins \cup NgoAdmins =>
        /\ listing.resource = "appointments" => listing.rows = 1..Len(appointments)
        /\ listing.resource = "medications" => listing.rows = 1..Len(medications)
        /\ listing.resource = "tasks" => listing.rows = 1..Len(tasks)
        /\ listing.resource = "health-records" => listing.rows = 1..Len(health_records)

\* An admin lists the tasks of two different volunteers.
C8_Witness ==
    /\ listing.caller \in SeniorAdmins \cup NgoAdmins
    /\ listing.resource = "tasks"
    /\ \E i, j \in listing.rows : tasks[i].volunteer # tasks[j].volunteer

(***************************************************************************)
(* VolunteerTask.complete: hours_logged and the volunteer's counters.      *)
(***************************************************************************)
\* C9: the task.save() of a complete request on a task with a start time T0,
\* stamped at T1 >= T0, stores status completed, actual_end_time = T1 and
\* hours_logged within a hundredth of (T1 - T0) / 3600, 1.50 for 5400 seconds.
C9_CompleteStoresHours ==
    [][\A c \in CompleteReqs :
          ( /\ creq[c].pc = "save_task"
            /\ creq'[c].pc # "save_task"
            /\ creq[c].task.actual_start_time # NoTime )
          => ( /\ tasks'[creq[c].pk].status = "completed"
               /\ tasks'[creq[c].pk].actual_end_time = creq[c].task.actual_end_time
               /\ creq[c].task.actual_end_time
                      = creq[c].task.actual_start_time + creq[c].seconds
               /\ 36 * tasks'[creq[c].pk].hours_logged - creq[c].seconds \in -35..35
               /\ creq[c].seconds = 5400 => tasks'[creq[c].pk].hours_logged = 150 )
      ]_vars

\* C10: the volunteer.save() of a complete request raises the profile's
\* tasks_completed by 1 and its total_hours by the task's hours_logged.
C10_CompleteAddsHours ==
    [][\A c \in CompleteReqs :
          (creq[c].pc = "save_profile" /\ creq'[c].pc # "save_profile")
          => LET v == creq[c].task.volunteer
             IN  /\ profiles'[v].tasks_completed = profiles[v].tasks_completed + 1
                 /\ 100 * profiles'[v].total_hours
                        = 100 * profiles[v].total_hours + tasks[creq[c].pk].hours_logged
      ]_vars

(***************************************************************************)
(* VolunteerTask.complete: overlapping requests and the missing profile.   *)
(***************************************************************************)
\* The complete requests that have saved the profile of volunteer v.
SavedProfileOf(v) ==
    {c \in CompleteReqs : creq[c].profile_saved /\ creq[c].task.volunteer = v}

RECURSIVE HoursLoggedOf(_)
HoursLoggedOf(S) ==
    IF S = {} THEN 0
    ELSE LET c == CHOOSE x \in S : TRUE
         IN  creq[c].task.hours_logged + HoursLoggedOf(S \ {c})

\* C11: once complete requests for different tasks of one volunteer have all
\* finished, the profile's tasks_completed has grown by one per request and its
\* total_hours by the sum of the tasks' hours_logged, however they interleaved.
C11_NoLostIncrement ==
    ( /\ \A c \in CompleteReqs : creq[c].pc \in {"idle", "done"}
      /\ \A c, d \in CompleteReqs :
             (c # d /\ creq[c].pc = "done" /\ creq[d].pc = "done")
                 => creq[c].pk # creq[d].pk )
    => \A v \in Volunteers :
           /\ profiles[v].tasks_completed = Cardinality(SavedProfileOf(v))
           /\ 100 * profiles[v].total_hours = HoursLoggedOf(SavedProfileOf(v))

\* C12: no state has a task stored as completed by a complete request while the
\* existing profile of its volunteer has not been incremented for it.
C12_CompleteIsAtomic ==
    \A c \in CompleteReqs :
        ( /\ creq[c].task_saved
          /\ tasks[creq[c].pk].status = "completed"
          /\ profiles[creq[c].task.volunteer].exists )
        => ( \/ creq[c].profile_saved
             \/ creq[c].pc = "done" )


C14_NoProfileGivesEmptyStats ==
    [][\A u \in Users :
          ( /\ ~HasProfile(u)
            /\ \/ DashboardVolunteerStats(u)
               \/ MyStats(u) )
          => ( /\ response'.status = 200
               /\ response'.error = None
               /\ response'.body = {} )
      ]_vars

(***************************************************************************)
(* EmergencyAlert: resolved_at and response_time.                          *)
(***************************************************************************)
\* C15: the alert.save() of a resolve request stores is_resolved, the caller as
\* resolved_by, a resolved_at and response_time = resolved_at - alert_time.
C15_ResolveStoresResponseTime ==
    [][\A q \in ResolveReqs :
          (rsreq[q].pc = "save" /\ rsreq'[q].pc = "done")
          => LET row == alerts'[rsreq[q].pk]
             IN  /\ row.is_resolved
                 /\ row.resolved_by = rsreq[q].user
                 /\ row.resolved_at # NoTime
                 /\ row.response_time = row.resolved_at - row.alert_time
      ]_vars

\* C16: every EmergencyAlert with is_resolved has resolved_at set and
\* response_time = resolved_at - alert_time.
C16_ResolvedHasResponseTime ==
    \A a \in 1..Len(alerts) :
        alerts[a].is_resolved
        => ( /\ alerts[a].resolved_at # NoTime
             /\ alerts[a].response_time # NoTime
             /\ alerts[a].response_time = alerts[a].resolved_at - alerts[a].alert_time )

(***************************************************************************)
(* Notification: is_read and read_at.                                      *)
(***************************************************************************)
\* C17: every Notification has read_at set exactly when is_read is true.
C17_ReadAtIffIsRead ==
    \A n \in 1..Len(notifications) :
        notifications[n].is_read <=> notifications[n].read_at # NoTime

\* mark_read has just marked one notification, after the clock advanced, while
\* another is unread.
C17_Witness ==
    /\ response.op = "mark_read"
    /\ response.status = 200
    /\ notifications[response.pk].is_read
    /\ notifications[response.pk].read_at > 0
    /\ \E n \in 1..Len(notifications) : ~notifications[n].is_read

\* C18: mark_all_read by u sets is_read and read_at = now on every notification
\* of u that was unread, and leaves the notifications of other users as they were.
C18_MarkAllReadOnlyOwn ==
    [][\A u \in NotificationUsers :
          MarkAllRead(u)
          => \A n \in 1..Len(notifications) :
                 /\ (notifications[n].user = u /\ ~notifications[n].is_read)
                    => ( /\ notifications'[n].is_read
                         /\ notifications'[n].read_at = now
                         /\ notifications'[n].user = u )
                 /\ notifications[n].user # u
                    => notifications'[n] = notifications[n]
      ]_vars

\* mark_all_read has just marked two notifications of its caller, after the
\* clock advanced, while another user's notification stays unread.
C18_Witness ==
    /\ response.op = "mark_all_read"
    /\ now > 0
    /\ \E n, k \in 1..Len(notifications) :
           /\ n # k
           /\ notifications[n].user = response.caller
           /\ notifications[k].user = response.caller
           /\ notifications[n].read_at = now
           /\ notifications[k].read_at = now
    /\ \E n \in 1..Len(notifications) :
           /\ notifications[n].user # response.caller
           /\ ~notifications[n].is_read

(***************************************************************************)
(* Registration with two different passwords.                              *)
(***************************************************************************)
\* C19: a registration whose password and password2 differ is answered 400 and
\* creates no User row and no token.
C19_MismatchCreatesNothing ==
    [][\A username \in Usernames, password \in Passwords, password2 \in Passwords,
          ut \in UserTypes :
          (RegisterUser(username, password, password2, ut) /\ password # password2)
          => ( /\ response'.status = 400
               /\ accounts' = accounts
               /\ tokens' = tokens )
      ]_vars

\* A registration for a free username with an accepted password was refused for
\* the mismatch, and the username is still free.
C19_Witness ==
    /\ response.op = "register"
    /\ response.status = 400
    /\ response.error = "Passwords don't match."
    /\ ~accounts[response.caller].exists
    /\ response.caller \notin tokens

(***************************************************************************)
(* Appointment.confirm.                                                    *)
(***************************************************************************)
\* C20: confirm leaves an appointment confirmed only when its status was
\* scheduled or confirmed.
C20_ConfirmOnlyFromScheduled ==
    [][\A u \in AppointmentCallers, i \in 1..Len(appointments) :
          (ConfirmAppointment(u, i) /\ appointments'[i].status = "confirmed")
          => appointments[i].status \in {"scheduled", "confirmed"}
      ]_vars

(***************************************************************************)
(* VolunteerTask: the status under accept, start and complete.             *)
(***************************************************************************)
\* C21: accept changes the status of a task only when the status is assigned.
C21_AcceptOnlyFromAssigned ==
    [][\A u \in TaskCallers, t \in 1..Len(tasks) :
          (AcceptTask(u, t) /\ tasks[t].status # "assigned")
          => tasks'[t].status = tasks[t].status
      ]_vars

\* C27: once a task has status completed, no accept, start or complete request
\* changes its status, its actual_start_time or its actual_end_time.
C27_CompletedIsTerminal ==
    [][\A t \in 1..Len(tasks) :
          tasks[t].status = "completed"
          => ( /\ tasks'[t].status = "completed"
               /\ tasks'[t].actual_start_time = tasks[t].actual_start_time
               /\ tasks'[t].actual_end_time = tasks[t].actual_end_time )
      ]_vars

\* C28: when no complete request is in flight, the tasks_completed of a
\* volunteer equals the number of distinct tasks whose completion was counted
\* on the profile.
C28_CompleteCountsTaskOnce ==
    NoCompleteInFlight =>
        \A v \in Volunteers :
            profiles[v].tasks_completed
                = Cardinality({creq[c].pk : c \in SavedProfileOf(v)})

(***************************************************************************)
(* Notification.mark_all_read and the notifications already read.          *)
(***************************************************************************)
\* C29: mark_all_read by u leaves the read_at of every notification of u that
\* was already read as it was.
C29_MarkAllReadKeepsReadAt ==
    [][\A u \in NotificationUsers :
          MarkAllRead(u)
          => \A n \in 1..Len(notifications) :
                 (notifications[n].user = u /\ notifications[n].is_read)
                 => notifications'[n].read_at = notifications[n].read_at
      ]_vars

(***************************************************************************)
(* Event.register: two requests of one user for one event.                 *)
(***************************************************************************)
\* C30: of two finished register requests of one user for one event that both
\* read free capacity, exactly one has succeeded, the other has answered
\* 'Already registered for this event.', and current_registrations is 1 above
\* the value they read.
C30_ConcurrentSameUserConflicts ==
    \A r, q \in RegisterReqs :
        ( /\ r # q
          /\ rreq[r].pc = "done"
          /\ rreq[q].pc = "done"
          /\ rreq[r].user = rreq[q].user
          /\ rreq[r].pk = rreq[q].pk
          /\ rreq[r].ev = rreq[q].ev
          /\ ~EventIsFull(rreq[r].ev)
          /\ rreq[r].response = "registered" )
        => ( /\ rreq[q].response = "already_registered"
             /\ events[rreq[r].pk].current_registrations
                    = rreq[r].ev.current_registrations + 1 )

(***************************************************************************)
(* hours_logged of a completed task.                                       *)
(***************************************************************************)
\* C22: in every reachable state, a task with status completed and both
\* actual_start_time and actual_end_time set has hours_logged equal to
\* (actual_end_time - actual_start_time) / 3600, to the two decimal places the
\* field stores, whether the API complete action or the admin mark_completed
\* action completed it.
C22_CompletedHasHoursLogged ==
    \A t \in 1..Len(tasks) :
       (/\ tasks[t].status = "completed"
        /\ tasks[t].actual_start_time # NoTime
        /\ tasks[t].actual_end_time # NoTime)
       => tasks[t].hours_logged
             = HoursLoggedStored(tasks[t].actual_end_time - tasks[t].actual_start_time)

(***************************************************************************)
(* The roles of the users a CareAssignment refers to.                      *)
(***************************************************************************)
\* C25: in every reachable state, every CareAssignment has a senior whose
\* user_type is senior and a caretaker whose user_type is caretaker.
C25_AssignmentRolesHold ==
    \A i \in 1..Len(assignments) :
       /\ user_type(assignments[i].senior) = "senior"
       /\ user_type(assignments[i].caretaker) = "caretaker"

(***************************************************************************)
(* Named actions addressed at a row the caller does not see.               *)
(***************************************************************************)
\* Appointment i belongs to another senior than the senior u.
OtherSeniorsAppointment(u, i) ==
    user_type(u) = "senior" /\ appointments[i].senior # u

\* Task t belongs to another senior than the senior u, or is assigned to
\* another volunteer than the volunteer u.
OthersTask(u, t) ==
    \/ user_type(u) = "senior" /\ tasks[t].senior # u
    \/ user_type(u) = "volunteer" /\ tasks[t].volunteer # u

\* Notification n belongs to another user than u.
OthersNotification(u, n) == notifications[n].user # u

NotFoundAnswered(op, u, pk) ==
    /\ response'.status = 404
    /\ response'.op = op
    /\ response'.caller = u
    /\ response'.pk = pk

\* C26: confirm or complete of an appointment, accept, start or complete of a
\* task and mark_read of a notification, addressed at a row outside the
\* caller's visible set, answer 404 and leave every row as it was.
C26_HiddenRowNotFoundAndUnchanged ==
    [][ /\ \A u \in AccessCallers, i \in 1..Len(appointments) :
            /\ (ConfirmAppointment(u, i) /\ OtherSeniorsAppointment(u, i))
               => (NotFoundAnswered("confirm", u, i) /\ appointments' = appointments)
            /\ (CompleteAppointment(u, i) /\ OtherSeniorsAppointment(u, i))
               => (NotFoundAnswered("complete", u, i) /\ appointments' = appointments)
        /\ \A u \in AccessCallers, t \in 1..Len(tasks) :
            /\ (AcceptTaskRequest(u, t) /\ OthersTask(u, t))
               => (NotFoundAnswered("accept", u, t) /\ tasks' = tasks)
            /\ (StartTaskRequest(u, t) /\ OthersTask(u, t))
               => (NotFoundAnswered("start", u, t) /\ tasks' = tasks)
            /\ \A c \in CompleteReqs :
                 (CompleteGetObject(c, u, t) /\ OthersTask(u, t))
                 => /\ creq'[c].pc = "done"
                    /\ creq'[c].response = "not_found"
                    /\ tasks' = tasks
                    /\ profiles' = profiles
        /\ \A u \in AccessCallers, n \in 1..Len(notifications) :
            \A m \in MarkReadReqs :
               (MarkReadGetObject(m, u, n) /\ OthersNotification(u, n))
               => /\ NotFoundAnswered("mark_read", u, n)
                  /\ notifications' = notifications
                  /\ mreq' = mreq
      ]_vars

\* The volunteer v2 has been answered 404 by accept for the task assigned to
\* v1, and the task has the values it was created with.
C26_Witness ==
    /\ response.op = "accept"
    /\ response.status = 404
    /\ response.caller = "v2"
    /\ response.pk \in 1..Len(tasks)
    /\ tasks[response.pk] = NewTask("s1", "v1")

(***************************************************************************)
(* The dashboard: a read, and what two requests in a row return.           *)
(***************************************************************************)
\* The rows of every entity.
AllRows ==
    <<events, registrations, appointments, medications, health_records, tasks,
      profiles, alerts, notifications, accounts, tokens, user_types, assignments,
      ngos>>

\* C23 as stated: a dashboard request changes no row, and a request that
\* follows a dashboard response to the same caller returns that response's
\* counts (DashSpec issues no write once a request has been answered).
C23_DashboardIsPureRead ==
    [][\A u \in DashCallers :
          DashboardStats(u)
          => /\ AllRows' = AllRows
             /\ (response.op = "dashboard_stats" /\ response.caller = u)
                => response'.body = response.body
      ]_vars

\* C23, amended: a dashboard request changes no row, and a request that
\* follows a dashboard response to the same caller on the same date returns
\* that response's counts.
C23_DashboardIsPureReadOnOneDate ==
    [][\A u \in DashCallers :
          DashboardStats(u)
          => /\ AllRows' = AllRows
             /\ ( /\ response.op = "dashboard_stats"
                  /\ response.caller = u
                  /\ response.date = now \div SecondsPerDay )
                => response'.body = response.body
      ]_vars

\* The senior s1 has asked twice in a row, the clock has advanced, and the
\* response counts an upcoming appointment, an active medication and an unread
\* notification.
C23_Witness ==
    /\ response.op = "dashboard_stats"
    /\ response.caller = "s1"
    /\ response.again
    /\ ticks > 0
    /\ response.body = {<<"upcoming_appointments", 1>>, <<"active_medications", 1>>,
                        <<"unread_notifications", 1>>}

(***************************************************************************)
(* The dashboard of an ngo_admin.                                          *)
(***************************************************************************)
\* The day of the clock.
ClockDate == now \div SecondsPerDay

\* The volunteers, the active tasks and the upcoming active events that refer
\* to the NGO g, counted.
CountsOfNgo(g) ==
    {<<"total_volunteers",
       Cardinality({v \in DOMAIN profiles : profiles[v].exists /\ profiles[v].ngo = g})>>,
     <<"active_tasks",
       Cardinality({t \in DOMAIN tasks :
                      tasks[t].ngo = g /\ tasks[t].status \notin {"completed", "cancelled"}})>>,
     <<"upcoming_events",
       Cardinality({e \in DOMAIN events :
                      /\ events[e].ngo = g
                      /\ events[e].is_active
                      /\ ~(events[e].event_date < ClockDate)})>>}

\* C24: the dashboard of an ngo_admin returns the counts of the volunteers,
\* tasks and events of an NGO whose admin is the caller, and an empty body when
\* no NGO has the caller as admin.
C24_NgoAdminCountsOwnNgo ==
    [][\A u \in NgoAdmins :
          (DashboardStats(u) /\ user_types[u] = "ngo_admin")
          => IF \A g \in DOMAIN ngos : ngos[g].admin # u
             THEN response'.body = {}
             ELSE \E g \in DOMAIN ngos :
                     /\ ngos[g].admin = u
                     /\ response'.body = CountsOfNgo(g)
      ]_vars

\* na has been answered with one volunteer and one active task of an NGO of
\* their own while an NGO of nb has an upcoming event that the response does
\* not count.
C24_Witness ==
    /\ response.op = "dashboard_stats"
    /\ response.caller = "na"
    /\ response.body = {<<"total_volunteers", 1>>, <<"active_tasks", 1>>,
                        <<"upcoming_events", 0>>}
    /\ \E g \in DOMAIN ngos, e \in DOMAIN events :
          /\ ngos[g].admin = "nb"
          /\ events[e].ngo = g
          /\ events[e].is_active
          /\ events[e].event_date >= ClockDate

=========================================================================
